---- MODULE Spec2Model ----
(***************************************************************************)
(* Model of json_to_models/models/base.py: the template helper, the        *)
(* generic model code generator, the recursive tree walker, generate_code  *)
(* and sort_kwargs.                                                        *)
(*                                                                         *)
(* A str is the sequence of its characters and a character is its Unicode  *)
(* code point, a natural number: "a\n" is <<97, 10>>.  Text("...") writes   *)
(* the str of printable ASCII characters between the quotes.               *)
(* A dict is a sequence of <<key, value>> pairs in insertion order.        *)
(***************************************************************************)
EXTENDS Integers, Sequences, FiniteSets, TLC

VARIABLES
    pc,               \* position of the modelled call
    \* ---- template(pattern, indent)
    pattern,          \* argument: the pattern, a str
    tindent,          \* argument: the indent unit, a str
    tpl,              \* the source text handed to Template(...)
    \* ---- sort_kwargs(kwargs, ordering)
    kwargs,           \* the caller's mapping (the function works on the object itself)
    kwargs_in,        \* the mapping as it was when the call started
    ordering,         \* argument: the ordering
    gi,               \* index of the next element of ordering
    sorted_dict_1,
    sorted_dict_2,
    current,          \* 1: current is sorted_dict_1, 2: current is sorted_dict_2
    sorted_dict,      \* the returned mapping
    \* ---- GenericModelCodeGenerator(model).generate(nested_classes)
    model,            \* self.model
    nested_arg,       \* argument nested_classes: a list of texts
    field_calls,      \* the field_data calls made so far: <<name, optional>>
    fields_out,       \* what the fields property returned: <<imports, strings>>
    generate_out,     \* what generate returned: <<imports, text>>
    \* ---- generate_code(structure, class_generator, ...)
    root,             \* structure[0]: the root nodes
    mapping,          \* structure[1]: the reference mapping
    objects_delimiter,
    ctx,              \* the mapping AbsoluteModelRef resolves against now
    ctx_token,        \* what inject() replaced, restored when the with block is left
    stack,            \* the frames of _generate_code, innermost last
    log,              \* generator instantiations and generate calls, in order
    conv,             \* the value of ctx at each metadata_to_typing call
    imports,          \* generate_code's local imports
    classes,          \* generate_code's local classes
    compile_args,     \* the arguments of the compile_imports calls made
    output            \* the returned text

tvars == <<pattern, tindent, tpl>>
kvars == <<kwargs, kwargs_in, ordering, gi, sorted_dict_1, sorted_dict_2, current, sorted_dict>>
gvars == <<model, nested_arg, field_calls, fields_out, generate_out>>
wvars == <<root, mapping, objects_delimiter, ctx, ctx_token, stack, log, conv,
           imports, classes, compile_args, output>>
vars == <<pc, tvars, kvars, gvars, wvars>>

\* the character "\n"
NL == 10

\* the printable ASCII characters U+0020 .. U+005F and U+0061 .. U+007E, in code
\* point order (U+0060 cannot stand in a string of the model)
AsciiTo95 == " !\"#$%&'()*+,-./0123456789:;<=>?@ABCDEFGHIJKLMNOPQRSTUVWXYZ[\\]^_"
AsciiFrom97 == "abcdefghijklmnopqrstuvwxyz{|}~"

\* the code point of each of these characters
AsciiCode ==
    LET at(str, c) == CHOOSE i \in 1..Len(str) : SubSeq(str, i, i) = c
        in(str) == {SubSeq(str, i, i) : i \in 1..Len(str)}
    IN  [c \in in(AsciiTo95) \cup in(AsciiFrom97) |->
            IF c \in in(AsciiTo95) THEN at(AsciiTo95, c) + 31 ELSE at(AsciiFrom97, c) + 96]

\* the str written as the literal lit
Text(lit) == [i \in 1..Len(lit) |-> AsciiCode[SubSeq(lit, i, i)]]

---------------------------------------------------------------------------
(* Bounds *)
MaxPattern == 6     \* longest pattern, in characters
MaxOrdering == 3    \* longest ordering, in elements
MaxFields == 3      \* most fields of a model given to one generator
MaxNested == 2      \* most nested texts given to one generate call
MaxNodes == 3       \* most nodes of a structure tree

---------------------------------------------------------------------------
(* Generic helpers *)

SeqsUpTo(S, n) == UNION {[1..k -> S] : k \in 0..n}

Range(s) == {s[i] : i \in 1..Len(s)}

\* str.split(sep): the fields between the separators (always at least one)
RECURSIVE split(_, _)
split(s, sep) ==
    IF \A i \in 1..Len(s) : s[i] # sep
    THEN <<s>>
    ELSE LET i == CHOOSE k \in 1..Len(s) : s[k] = sep /\ \A j \in 1..(k - 1) : s[j] # sep
         IN  <<SubSeq(s, 1, i - 1)>> \o split(SubSeq(s, i + 1, Len(s)), sep)

\* sep.join(parts), sep a text
RECURSIVE join(_, _)
join(parts, sep) ==
    IF parts = <<>> THEN <<>>
    ELSE IF Len(parts) = 1 THEN parts[1]
    ELSE parts[1] \o sep \o join(Tail(parts), sep)

---------------------------------------------------------------------------
(* template *)

\* the characters str.strip() removes (those with str.isspace()): U+0009..U+000D,
\* U+001C..U+001F, U+0020, U+0085, U+00A0, U+1680, U+2000..U+200A, U+2028,
\* U+2029, U+202F, U+205F and U+3000
Whitespace ==
    (9..13) \cup (28..32) \cup {133, 160, 5760} \cup (8192..8202)
    \cup {8232, 8233, 8239, 8287, 12288}

\* not line.strip()
IsBlank(line) == \A i \in 1..Len(line) : line[i] \in Whitespace

\* for i in (0, -1): if not lines[i].strip(): del lines[i]
StripEnds(lines) ==
    LET l1 == IF IsBlank(lines[1]) THEN Tail(lines) ELSE lines
    IN  IF IsBlank(l1[Len(l1)]) THEN SubSeq(l1, 1, Len(l1) - 1) ELSE l1

\* a plausible slip: the first n characters are cut whatever they are
DedentAlways(line, ind) == SubSeq(line, Len(ind) + 1, Len(line))

\* line[n:] if line[:n] == indent else line
Dedent(line, ind) ==
    LET n == Len(ind)
    IN  IF SubSeq(line, 1, IF n < Len(line) THEN n ELSE Len(line)) = ind
        THEN SubSeq(line, n + 1, Len(line))
        ELSE line

\* the text template() hands to Template(...)
template(p, ind) ==
    IF NL \in Range(p)
    THEN LET lines == StripEnds(split(p, NL))
         IN  join([i \in 1..Len(lines) |-> Dedent(lines[i], ind)], <<NL>>)
    ELSE p

---------------------------------------------------------------------------
(* sort_kwargs *)

Str(s) == [isstr |-> TRUE, str |-> s, items |-> <<>>]
Group(g) == [isstr |-> FALSE, str |-> "", items |-> g]

Keys(d) == [i \in 1..Len(d) |-> d[i][1]]

\* item in d
HasKey(d, k) == \E i \in 1..Len(d) : d[i][1] = k

\* d[k]
Get(d, k) == d[CHOOSE i \in 1..Len(d) : d[i][1] = k][2]

\* d without k (the dict after d.pop(k))
Without(d, k) ==
    LET F[i \in 0..Len(d)] ==
            IF i = 0 THEN <<>>
            ELSE IF d[i][1] = k THEN F[i - 1] ELSE Append(F[i - 1], d[i])
    IN  F[Len(d)]

\* d[k] = v: a present key keeps its place, a new key goes last
DictSet(d, k, v) ==
    IF HasKey(d, k)
    THEN [i \in 1..Len(d) |-> IF d[i][1] = k THEN <<k, v>> ELSE d[i]]
    ELSE Append(d, <<k, v>>)

\* {**a, **b}
RECURSIVE Merge(_, _)
Merge(a, b) ==
    IF b = <<>> THEN a ELSE Merge(DictSet(a, b[1][1], b[1][2]), Tail(b))

\* for item in group: if item in kwargs: value = kwargs.pop(item); current[item] = value
\* st = <<kwargs, current dict>>
RECURSIVE GroupLoop(_, _)
GroupLoop(st, items) ==
    IF items = <<>> THEN st
    ELSE LET item == items[1]
         IN  IF HasKey(st[1], item)
             THEN GroupLoop(<<Without(st[1], item), DictSet(st[2], item, Get(st[1], item))>>,
                            Tail(items))
             ELSE GroupLoop(st, Tail(items))


\* the whole call sort_kwargs(kw, ord): whether it raised, the mapping it
\* returned, and the caller's mapping after the call
sort_kwargs(kw, ord) ==
    LET F[i \in 0..Len(ord)] ==
            IF i = 0
            THEN [raised |-> FALSE, kwargs |-> kw, d1 |-> <<>>, d2 |-> <<>>, current |-> 1]
            ELSE LET st == F[i - 1]
                     group == ord[i]
                 IN  IF st.raised THEN st
                     ELSE IF group.isstr
                     THEN IF group.str # "*"
                          THEN [st EXCEPT !.raised = TRUE]
                          ELSE [st EXCEPT !.current = 2]
                     ELSE LET r == GroupLoop(<<st.kwargs, IF st.current = 1 THEN st.d1 ELSE st.d2>>,
                                             group.items)
                          IN  IF st.current = 1
                              THEN [st EXCEPT !.kwargs = r[1], !.d1 = r[2]]
                              ELSE [st EXCEPT !.kwargs = r[1], !.d2 = r[2]]
        end == F[Len(ord)]
    IN  [raised |-> end.raised,
         value |-> IF end.raised THEN <<>> ELSE Merge(Merge(end.d1, end.kwargs), end.d2),
         kwargs |-> end.kwargs]

---------------------------------------------------------------------------
(* Collaborators imported by base.py (lines 3-7) *)

\* one indent unit: four spaces
INDENT == Text("    ")

\* the default delimiter of top-level objects: two blank lines
OBJECTS_DELIMITER == <<NL, NL, NL>>

\* the concatenation of a list of texts
RECURSIVE Flatten(_)
Flatten(texts) == IF texts = <<>> THEN <<>> ELSE texts[1] \o Flatten(Tail(texts))

\* indent(text): every line of text prefixed by one indent unit
indent(s) ==
    LET lines == split(s, NL)
    IN  join([i \in 1..Len(lines) |-> INDENT \o lines[i]], <<NL>>)

\* A field type descriptor is a sequence of wrappers around a base type,
\* outermost first, each given by its name: <<"Optional", "List", "str">>.
\* An import is a pair <<module name, object name>>.
\* metadata_to_typing(meta): <<imports, type text>>
RECURSIVE metadata_to_typing(_)
metadata_to_typing(meta) ==
    IF Len(meta) = 1
    THEN IF meta[1] = "datetime"
         THEN << << <<"datetime", "datetime">> >>, Text("datetime") >>
         ELSE << <<>>, Text(meta[1]) >>
    ELSE LET inner == metadata_to_typing(Tail(meta))
         IN  << << <<"typing", meta[1]>> >> \o inner[1],
                Text(meta[1]) \o Text("[") \o inner[2] \o Text("]") >>

\* sort_fields(model): <<required names, optional names>>, each in declared order
sort_fields(m) ==
    LET F[i \in 0..Len(m.type)] ==
            IF i = 0 THEN << <<>>, <<>> >>
            ELSE IF m.type[i][2][1] = "Optional"
                 THEN <<F[i - 1][1], Append(F[i - 1][2], m.type[i][1])>>
                 ELSE <<Append(F[i - 1][1], m.type[i][1]), F[i - 1][2]>>
    IN  F[Len(m.type)]

\* compile_imports(imports): the import statements, each import once
compile_imports(imps) ==
    LET F[i \in 0..Len(imps)] ==
            IF i = 0 THEN <<>>
            ELSE IF \E j \in 1..(i - 1) : imps[j] = imps[i]
                 THEN F[i - 1]
                 ELSE Append(F[i - 1], Text("from ") \o Text(imps[i][1])
                                       \o Text(" import ") \o Text(imps[i][2]))
    IN  join(F[Len(imps)], <<NL>>)

\* [A-Z] and [a-z] in a str pattern: the ASCII letters only
IsAsciiUpper(c) == c \in 65..90
IsAsciiLower(c) == c \in 97..122

\* the code points \d matches in a str pattern (the decimal digits, category Nd
\* of Unicode 14.0), as ranges <<first, last>>
DecimalDigits ==
    {<<48, 57>>, <<1632, 1641>>, <<1776, 1785>>, <<1984, 1993>>, <<2406, 2415>>, <<2534, 2543>>,
     <<2662, 2671>>, <<2790, 2799>>, <<2918, 2927>>, <<3046, 3055>>, <<3174, 3183>>, <<3302, 3311>>,
     <<3430, 3439>>, <<3558, 3567>>, <<3664, 3673>>, <<3792, 3801>>, <<3872, 3881>>, <<4160, 4169>>,
     <<4240, 4249>>, <<6112, 6121>>, <<6160, 6169>>, <<6470, 6479>>, <<6608, 6617>>, <<6784, 6793>>,
     <<6800, 6809>>, <<6992, 7001>>, <<7088, 7097>>, <<7232, 7241>>, <<7248, 7257>>, <<42528, 42537>>,
     <<43216, 43225>>, <<43264, 43273>>, <<43472, 43481>>, <<43504, 43513>>, <<43600, 43609>>, <<44016, 44025>>,
     <<65296, 65305>>, <<66720, 66729>>, <<68912, 68921>>, <<69734, 69743>>, <<69872, 69881>>, <<69942, 69951>>,
     <<70096, 70105>>, <<70384, 70393>>, <<70736, 70745>>, <<70864, 70873>>, <<71248, 71257>>, <<71360, 71369>>,
     <<71472, 71481>>, <<71904, 71913>>, <<72016, 72025>>, <<72784, 72793>>, <<73040, 73049>>, <<73120, 73129>>,
     <<92768, 92777>>, <<92864, 92873>>, <<93008, 93017>>, <<120782, 120831>>, <<123200, 123209>>, <<123632, 123641>>,
     <<125264, 125273>>, <<130032, 130041>>}

\* the simple lowercase mappings of Unicode 14.0 beyond ASCII, as
\* <<first, last, step, delta>>: a code point c of first, first + step, .. last
\* has the lowercase c + delta
LowerMappings ==
    {<<192, 214, 1, 32>>, <<216, 222, 1, 32>>, <<256, 302, 2, 1>>, <<306, 310, 2, 1>>,
     <<313, 327, 2, 1>>, <<330, 374, 2, 1>>, <<376, 376, 1, -121>>, <<377, 381, 2, 1>>,
     <<385, 385, 1, 210>>, <<386, 388, 2, 1>>, <<390, 390, 1, 206>>, <<391, 391, 1, 1>>,
     <<393, 394, 1, 205>>, <<395, 395, 1, 1>>, <<398, 398, 1, 79>>, <<399, 399, 1, 202>>,
     <<400, 400, 1, 203>>, <<401, 401, 1, 1>>, <<403, 403, 1, 205>>, <<404, 404, 1, 207>>,
     <<406, 406, 1, 211>>, <<407, 407, 1, 209>>, <<408, 408, 1, 1>>, <<412, 412, 1, 211>>,
     <<413, 413, 1, 213>>, <<415, 415, 1, 214>>, <<416, 420, 2, 1>>, <<422, 422, 1, 218>>,
     <<423, 423, 1, 1>>, <<425, 425, 1, 218>>, <<428, 428, 1, 1>>, <<430, 430, 1, 218>>,
     <<431, 431, 1, 1>>, <<433, 434, 1, 217>>, <<435, 437, 2, 1>>, <<439, 439, 1, 219>>,
     <<440, 440, 1, 1>>, <<444, 444, 1, 1>>, <<452, 452, 1, 2>>, <<453, 453, 1, 1>>,
     <<455, 455, 1, 2>>, <<456, 456, 1, 1>>, <<458, 458, 1, 2>>, <<459, 475, 2, 1>>,
     <<478, 494, 2, 1>>, <<497, 497, 1, 2>>, <<498, 500, 2, 1>>, <<502, 502, 1, -97>>,
     <<503, 503, 1, -56>>, <<504, 542, 2, 1>>, <<544, 544, 1, -130>>, <<546, 562, 2, 1>>,
     <<570, 570, 1, 10795>>, <<571, 571, 1, 1>>, <<573, 573, 1, -163>>, <<574, 574, 1, 10792>>,
     <<577, 577, 1, 1>>, <<579, 579, 1, -195>>, <<580, 580, 1, 69>>, <<581, 581, 1, 71>>,
     <<582, 590, 2, 1>>, <<880, 882, 2, 1>>, <<886, 886, 1, 1>>, <<895, 895, 1, 116>>,
     <<902, 902, 1, 38>>, <<904, 906, 1, 37>>, <<908, 908, 1, 64>>, <<910, 911, 1, 63>>,
     <<913, 929, 1, 32>>, <<932, 939, 1, 32>>, <<975, 975, 1, 8>>, <<984, 1006, 2, 1>>,
     <<1012, 1012, 1, -60>>, <<1015, 1015, 1, 1>>, <<1017, 1017, 1, -7>>, <<1018, 1018, 1, 1>>,
     <<1021, 1023, 1, -130>>, <<1024, 1039, 1, 80>>, <<1040, 1071, 1, 32>>, <<1120, 1152, 2, 1>>,
     <<1162, 1214, 2, 1>>, <<1216, 1216, 1, 15>>, <<1217, 1229, 2, 1>>, <<1232, 1326, 2, 1>>,
     <<1329, 1366, 1, 48>>, <<4256, 4293, 1, 7264>>, <<4295, 4295, 1, 7264>>, <<4301, 4301, 1, 7264>>,
     <<5024, 5103, 1, 38864>>, <<5104, 5109, 1, 8>>, <<7312, 7354, 1, -3008>>, <<7357, 7359, 1, -3008>>,
     <<7680, 7828, 2, 1>>, <<7838, 7838, 1, -7615>>, <<7840, 7934, 2, 1>>, <<7944, 7951, 1, -8>>,
     <<7960, 7965, 1, -8>>, <<7976, 7983, 1, -8>>, <<7992, 7999, 1, -8>>, <<8008, 8013, 1, -8>>,
     <<8025, 8031, 2, -8>>, <<8040, 8047, 1, -8>>, <<8072, 8079, 1, -8>>, <<8088, 8095, 1, -8>>,
     <<8104, 8111, 1, -8>>, <<8120, 8121, 1, -8>>, <<8122, 8123, 1, -74>>, <<8124, 8124, 1, -9>>,
     <<8136, 8139, 1, -86>>, <<8140, 8140, 1, -9>>, <<8152, 8153, 1, -8>>, <<8154, 8155, 1, -100>>,
     <<8168, 8169, 1, -8>>, <<8170, 8171, 1, -112>>, <<8172, 8172, 1, -7>>, <<8184, 8185, 1, -128>>,
     <<8186, 8187, 1, -126>>, <<8188, 8188, 1, -9>>, <<8486, 8486, 1, -7517>>, <<8490, 8490, 1, -8383>>,
     <<8491, 8491, 1, -8262>>, <<8498, 8498, 1, 28>>, <<8544, 8559, 1, 16>>, <<8579, 8579, 1, 1>>,
     <<9398, 9423, 1, 26>>, <<11264, 11311, 1, 48>>, <<11360, 11360, 1, 1>>, <<11362, 11362, 1, -10743>>,
     <<11363, 11363, 1, -3814>>, <<11364, 11364, 1, -10727>>, <<11367, 11371, 2, 1>>, <<11373, 11373, 1, -10780>>,
     <<11374, 11374, 1, -10749>>, <<11375, 11375, 1, -10783>>, <<11376, 11376, 1, -10782>>, <<11378, 11378, 1, 1>>,
     <<11381, 11381, 1, 1>>, <<11390, 11391, 1, -10815>>, <<11392, 11490, 2, 1>>, <<11499, 11501, 2, 1>>,
     <<11506, 11506, 1, 1>>, <<42560, 42604, 2, 1>>, <<42624, 42650, 2, 1>>, <<42786, 42798, 2, 1>>,
     <<42802, 42862, 2, 1>>, <<42873, 42875, 2, 1>>, <<42877, 42877, 1, -35332>>, <<42878, 42886, 2, 1>>,
     <<42891, 42891, 1, 1>>, <<42893, 42893, 1, -42280>>, <<42896, 42898, 2, 1>>, <<42902, 42920, 2, 1>>,
     <<42922, 42922, 1, -42308>>, <<42923, 42923, 1, -42319>>, <<42924, 42924, 1, -42315>>, <<42925, 42925, 1, -42305>>,
     <<42926, 42926, 1, -42308>>, <<42928, 42928, 1, -42258>>, <<42929, 42929, 1, -42282>>, <<42930, 42930, 1, -42261>>,
     <<42931, 42931, 1, 928>>, <<42932, 42946, 2, 1>>, <<42948, 42948, 1, -48>>, <<42949, 42949, 1, -42307>>,
     <<42950, 42950, 1, -35384>>, <<42951, 42953, 2, 1>>, <<42960, 42960, 1, 1>>, <<42966, 42968, 2, 1>>,
     <<42997, 42997, 1, 1>>, <<65313, 65338, 1, 32>>, <<66560, 66599, 1, 40>>, <<66736, 66771, 1, 40>>,
     <<66928, 66938, 1, 39>>, <<66940, 66954, 1, 39>>, <<66956, 66962, 1, 39>>, <<66964, 66965, 1, 39>>,
     <<68736, 68786, 1, 64>>, <<71840, 71871, 1, 32>>, <<93760, 93791, 1, 32>>, <<125184, 125217, 1, 34>>}

\* the code points with the property Cased and without Case_Ignorable, as ranges
CasedChars ==
    {<<65, 90>>, <<97, 122>>, <<170, 170>>, <<181, 181>>, <<186, 186>>, <<192, 214>>,
     <<216, 246>>, <<248, 442>>, <<444, 447>>, <<452, 659>>, <<661, 687>>, <<880, 883>>,
     <<886, 887>>, <<891, 893>>, <<895, 895>>, <<902, 902>>, <<904, 906>>, <<908, 908>>,
     <<910, 929>>, <<931, 1013>>, <<1015, 1153>>, <<1162, 1327>>, <<1329, 1366>>, <<1376, 1416>>,
     <<4256, 4293>>, <<4295, 4295>>, <<4301, 4301>>, <<4304, 4346>>, <<4349, 4351>>, <<5024, 5109>>,
     <<5112, 5117>>, <<7296, 7304>>, <<7312, 7354>>, <<7357, 7359>>, <<7424, 7467>>, <<7531, 7543>>,
     <<7545, 7578>>, <<7680, 7957>>, <<7960, 7965>>, <<7968, 8005>>, <<8008, 8013>>, <<8016, 8023>>,
     <<8025, 8025>>, <<8027, 8027>>, <<8029, 8029>>, <<8031, 8061>>, <<8064, 8116>>, <<8118, 8124>>,
     <<8126, 8126>>, <<8130, 8132>>, <<8134, 8140>>, <<8144, 8147>>, <<8150, 8155>>, <<8160, 8172>>,
     <<8178, 8180>>, <<8182, 8188>>, <<8450, 8450>>, <<8455, 8455>>, <<8458, 8467>>, <<8469, 8469>>,
     <<8473, 8477>>, <<8484, 8484>>, <<8486, 8486>>, <<8488, 8488>>, <<8490, 8493>>, <<8495, 8500>>,
     <<8505, 8505>>, <<8508, 8511>>, <<8517, 8521>>, <<8526, 8526>>, <<8544, 8575>>, <<8579, 8580>>,
     <<9398, 9449>>, <<11264, 11387>>, <<11390, 11492>>, <<11499, 11502>>, <<11506, 11507>>, <<11520, 11557>>,
     <<11559, 11559>>, <<11565, 11565>>, <<42560, 42605>>, <<42624, 42651>>, <<42786, 42863>>, <<42865, 42887>>,
     <<42891, 42894>>, <<42896, 42954>>, <<42960, 42961>>, <<42963, 42963>>, <<42965, 42969>>, <<42997, 42998>>,
     <<43002, 43002>>, <<43824, 43866>>, <<43872, 43880>>, <<43888, 43967>>, <<64256, 64262>>, <<64275, 64279>>,
     <<65313, 65338>>, <<65345, 65370>>, <<66560, 66639>>, <<66736, 66771>>, <<66776, 66811>>, <<66928, 66938>>,
     <<66940, 66954>>, <<66956, 66962>>, <<66964, 66965>>, <<66967, 66977>>, <<66979, 66993>>, <<66995, 67001>>,
     <<67003, 67004>>, <<68736, 68786>>, <<68800, 68850>>, <<71840, 71903>>, <<93760, 93823>>, <<119808, 119892>>,
     <<119894, 119964>>, <<119966, 119967>>, <<119970, 119970>>, <<119973, 119974>>, <<119977, 119980>>, <<119982, 119993>>,
     <<119995, 119995>>, <<119997, 120003>>, <<120005, 120069>>, <<120071, 120074>>, <<120077, 120084>>, <<120086, 120092>>,
     <<120094, 120121>>, <<120123, 120126>>, <<120128, 120132>>, <<120134, 120134>>, <<120138, 120144>>, <<120146, 120485>>,
     <<120488, 120512>>, <<120514, 120538>>, <<120540, 120570>>, <<120572, 120596>>, <<120598, 120628>>, <<120630, 120654>>,
     <<120656, 120686>>, <<120688, 120712>>, <<120714, 120744>>, <<120746, 120770>>, <<120772, 120779>>, <<122624, 122633>>,
     <<122635, 122654>>, <<125184, 125251>>, <<127280, 127305>>, <<127312, 127337>>, <<127344, 127369>>}

\* the code points with the property Case_Ignorable, as ranges
CaseIgnorableChars ==
    {<<39, 39>>, <<46, 46>>, <<58, 58>>, <<94, 94>>, <<96, 96>>, <<168, 168>>,
     <<173, 173>>, <<175, 175>>, <<180, 180>>, <<183, 184>>, <<688, 879>>, <<884, 885>>,
     <<890, 890>>, <<900, 901>>, <<903, 903>>, <<1155, 1161>>, <<1369, 1369>>, <<1375, 1375>>,
     <<1425, 1469>>, <<1471, 1471>>, <<1473, 1474>>, <<1476, 1477>>, <<1479, 1479>>, <<1524, 1524>>,
     <<1536, 1541>>, <<1552, 1562>>, <<1564, 1564>>, <<1600, 1600>>, <<1611, 1631>>, <<1648, 1648>>,
     <<1750, 1757>>, <<1759, 1768>>, <<1770, 1773>>, <<1807, 1807>>, <<1809, 1809>>, <<1840, 1866>>,
     <<1958, 1968>>, <<2027, 2037>>, <<2042, 2042>>, <<2045, 2045>>, <<2070, 2093>>, <<2137, 2139>>,
     <<2184, 2184>>, <<2192, 2193>>, <<2200, 2207>>, <<2249, 2306>>, <<2362, 2362>>, <<2364, 2364>>,
     <<2369, 2376>>, <<2381, 2381>>, <<2385, 2391>>, <<2402, 2403>>, <<2417, 2417>>, <<2433, 2433>>,
     <<2492, 2492>>, <<2497, 2500>>, <<2509, 2509>>, <<2530, 2531>>, <<2558, 2558>>, <<2561, 2562>>,
     <<2620, 2620>>, <<2625, 2626>>, <<2631, 2632>>, <<2635, 2637>>, <<2641, 2641>>, <<2672, 2673>>,
     <<2677, 2677>>, <<2689, 2690>>, <<2748, 2748>>, <<2753, 2757>>, <<2759, 2760>>, <<2765, 2765>>,
     <<2786, 2787>>, <<2810, 2815>>, <<2817, 2817>>, <<2876, 2876>>, <<2879, 2879>>, <<2881, 2884>>,
     <<2893, 2893>>, <<2901, 2902>>, <<2914, 2915>>, <<2946, 2946>>, <<3008, 3008>>, <<3021, 3021>>,
     <<3072, 3072>>, <<3076, 3076>>, <<3132, 3132>>, <<3134, 3136>>, <<3142, 3144>>, <<3146, 3149>>,
     <<3157, 3158>>, <<3170, 3171>>, <<3201, 3201>>, <<3260, 3260>>, <<3263, 3263>>, <<3270, 3270>>,
     <<3276, 3277>>, <<3298, 3299>>, <<3328, 3329>>, <<3387, 3388>>, <<3393, 3396>>, <<3405, 3405>>,
     <<3426, 3427>>, <<3457, 3457>>, <<3530, 3530>>, <<3538, 3540>>, <<3542, 3542>>, <<3633, 3633>>,
     <<3636, 3642>>, <<3654, 3662>>, <<3761, 3761>>, <<3764, 3772>>, <<3782, 3782>>, <<3784, 3789>>,
     <<3864, 3865>>, <<3893, 3893>>, <<3895, 3895>>, <<3897, 3897>>, <<3953, 3966>>, <<3968, 3972>>,
     <<3974, 3975>>, <<3981, 3991>>, <<3993, 4028>>, <<4038, 4038>>, <<4141, 4144>>, <<4146, 4151>>,
     <<4153, 4154>>, <<4157, 4158>>, <<4184, 4185>>, <<4190, 4192>>, <<4209, 4212>>, <<4226, 4226>>,
     <<4229, 4230>>, <<4237, 4237>>, <<4253, 4253>>, <<4348, 4348>>, <<4957, 4959>>, <<5906, 5908>>,
     <<5938, 5939>>, <<5970, 5971>>, <<6002, 6003>>, <<6068, 6069>>, <<6071, 6077>>, <<6086, 6086>>,
     <<6089, 6099>>, <<6103, 6103>>, <<6109, 6109>>, <<6155, 6159>>, <<6211, 6211>>, <<6277, 6278>>,
     <<6313, 6313>>, <<6432, 6434>>, <<6439, 6440>>, <<6450, 6450>>, <<6457, 6459>>, <<6679, 6680>>,
     <<6683, 6683>>, <<6742, 6742>>, <<6744, 6750>>, <<6752, 6752>>, <<6754, 6754>>, <<6757, 6764>>,
     <<6771, 6780>>, <<6783, 6783>>, <<6823, 6823>>, <<6832, 6862>>, <<6912, 6915>>, <<6964, 6964>>,
     <<6966, 6970>>, <<6972, 6972>>, <<6978, 6978>>, <<7019, 7027>>, <<7040, 7041>>, <<7074, 7077>>,
     <<7080, 7081>>, <<7083, 7085>>, <<7142, 7142>>, <<7144, 7145>>, <<7149, 7149>>, <<7151, 7153>>,
     <<7212, 7219>>, <<7222, 7223>>, <<7288, 7293>>, <<7376, 7378>>, <<7380, 7392>>, <<7394, 7400>>,
     <<7405, 7405>>, <<7412, 7412>>, <<7416, 7417>>, <<7468, 7530>>, <<7544, 7544>>, <<7579, 7679>>,
     <<8125, 8125>>, <<8127, 8129>>, <<8141, 8143>>, <<8157, 8159>>, <<8173, 8175>>, <<8189, 8190>>,
     <<8203, 8207>>, <<8216, 8217>>, <<8228, 8228>>, <<8231, 8231>>, <<8234, 8238>>, <<8288, 8292>>,
     <<8294, 8303>>, <<8305, 8305>>, <<8319, 8319>>, <<8336, 8348>>, <<8400, 8432>>, <<11388, 11389>>,
     <<11503, 11505>>, <<11631, 11631>>, <<11647, 11647>>, <<11744, 11775>>, <<11823, 11823>>, <<12293, 12293>>,
     <<12330, 12333>>, <<12337, 12341>>, <<12347, 12347>>, <<12441, 12446>>, <<12540, 12542>>, <<40981, 40981>>,
     <<42232, 42237>>, <<42508, 42508>>, <<42607, 42610>>, <<42612, 42621>>, <<42623, 42623>>, <<42652, 42655>>,
     <<42736, 42737>>, <<42752, 42785>>, <<42864, 42864>>, <<42888, 42890>>, <<42994, 42996>>, <<43000, 43001>>,
     <<43010, 43010>>, <<43014, 43014>>, <<43019, 43019>>, <<43045, 43046>>, <<43052, 43052>>, <<43204, 43205>>,
     <<43232, 43249>>, <<43263, 43263>>, <<43302, 43309>>, <<43335, 43345>>, <<43392, 43394>>, <<43443, 43443>>,
     <<43446, 43449>>, <<43452, 43453>>, <<43471, 43471>>, <<43493, 43494>>, <<43561, 43566>>, <<43569, 43570>>,
     <<43573, 43574>>, <<43587, 43587>>, <<43596, 43596>>, <<43632, 43632>>, <<43644, 43644>>, <<43696, 43696>>,
     <<43698, 43700>>, <<43703, 43704>>, <<43710, 43711>>, <<43713, 43713>>, <<43741, 43741>>, <<43756, 43757>>,
     <<43763, 43764>>, <<43766, 43766>>, <<43867, 43871>>, <<43881, 43883>>, <<44005, 44005>>, <<44008, 44008>>,
     <<44013, 44013>>, <<64286, 64286>>, <<64434, 64450>>, <<65024, 65039>>, <<65043, 65043>>, <<65056, 65071>>,
     <<65106, 65106>>, <<65109, 65109>>, <<65279, 65279>>, <<65287, 65287>>, <<65294, 65294>>, <<65306, 65306>>,
     <<65342, 65342>>, <<65344, 65344>>, <<65392, 65392>>, <<65438, 65439>>, <<65507, 65507>>, <<65529, 65531>>,
     <<66045, 66045>>, <<66272, 66272>>, <<66422, 66426>>, <<67456, 67461>>, <<67463, 67504>>, <<67506, 67514>>,
     <<68097, 68099>>, <<68101, 68102>>, <<68108, 68111>>, <<68152, 68154>>, <<68159, 68159>>, <<68325, 68326>>,
     <<68900, 68903>>, <<69291, 69292>>, <<69446, 69456>>, <<69506, 69509>>, <<69633, 69633>>, <<69688, 69702>>,
     <<69744, 69744>>, <<69747, 69748>>, <<69759, 69761>>, <<69811, 69814>>, <<69817, 69818>>, <<69821, 69821>>,
     <<69826, 69826>>, <<69837, 69837>>, <<69888, 69890>>, <<69927, 69931>>, <<69933, 69940>>, <<70003, 70003>>,
     <<70016, 70017>>, <<70070, 70078>>, <<70089, 70092>>, <<70095, 70095>>, <<70191, 70193>>, <<70196, 70196>>,
     <<70198, 70199>>, <<70206, 70206>>, <<70367, 70367>>, <<70371, 70378>>, <<70400, 70401>>, <<70459, 70460>>,
     <<70464, 70464>>, <<70502, 70508>>, <<70512, 70516>>, <<70712, 70719>>, <<70722, 70724>>, <<70726, 70726>>,
     <<70750, 70750>>, <<70835, 70840>>, <<70842, 70842>>, <<70847, 70848>>, <<70850, 70851>>, <<71090, 71093>>,
     <<71100, 71101>>, <<71103, 71104>>, <<71132, 71133>>, <<71219, 71226>>, <<71229, 71229>>, <<71231, 71232>>,
     <<71339, 71339>>, <<71341, 71341>>, <<71344, 71349>>, <<71351, 71351>>, <<71453, 71455>>, <<71458, 71461>>,
     <<71463, 71467>>, <<71727, 71735>>, <<71737, 71738>>, <<71995, 71996>>, <<71998, 71998>>, <<72003, 72003>>,
     <<72148, 72151>>, <<72154, 72155>>, <<72160, 72160>>, <<72193, 72202>>, <<72243, 72248>>, <<72251, 72254>>,
     <<72263, 72263>>, <<72273, 72278>>, <<72281, 72283>>, <<72330, 72342>>, <<72344, 72345>>, <<72752, 72758>>,
     <<72760, 72765>>, <<72767, 72767>>, <<72850, 72871>>, <<72874, 72880>>, <<72882, 72883>>, <<72885, 72886>>,
     <<73009, 73014>>, <<73018, 73018>>, <<73020, 73021>>, <<73023, 73029>>, <<73031, 73031>>, <<73104, 73105>>,
     <<73109, 73109>>, <<73111, 73111>>, <<73459, 73460>>, <<78896, 78904>>, <<92912, 92916>>, <<92976, 92982>>,
     <<92992, 92995>>, <<94031, 94031>>, <<94095, 94111>>, <<94176, 94177>>, <<94179, 94180>>, <<110576, 110579>>,
     <<110581, 110587>>, <<110589, 110590>>, <<113821, 113822>>, <<113824, 113827>>, <<118528, 118573>>, <<118576, 118598>>,
     <<119143, 119145>>, <<119155, 119170>>, <<119173, 119179>>, <<119210, 119213>>, <<119362, 119364>>, <<121344, 121398>>,
     <<121403, 121452>>, <<121461, 121461>>, <<121476, 121476>>, <<121499, 121503>>, <<121505, 121519>>, <<122880, 122886>>,
     <<122888, 122904>>, <<122907, 122913>>, <<122915, 122916>>, <<122918, 122922>>, <<123184, 123197>>, <<123566, 123566>>,
     <<123628, 123631>>, <<125136, 125142>>, <<125252, 125259>>, <<127995, 127999>>, <<917505, 917505>>, <<917536, 917631>>,
     <<917760, 917999>>}

InRanges(c, ranges) == \E r \in ranges : r[1] <= c /\ c <= r[2]

\* \d in a str pattern
IsDigit(c) == c \in 48..57 \/ (c > 127 /\ InRanges(c, DecimalDigits))

\* str.lower() at U+03A3: the final form U+03C2 when a cased character comes
\* before it and none comes after it, case-ignorable characters skipped, and
\* U+03C3 otherwise
LowerSigma(w, i) ==
    LET Ignorable(j) == InRanges(w[j], CaseIgnorableChars)
        Cased(j) == InRanges(w[j], CasedChars)
        before == {j \in 1..(i - 1) : ~Ignorable(j)}
        after == {j \in (i + 1)..Len(w) : ~Ignorable(j)}
        Max(S) == CHOOSE j \in S : \A k \in S : k <= j
        Min(S) == CHOOSE j \in S : \A k \in S : j <= k
    IN  IF /\ before # {}
           /\ Cased(Max(before))
           /\ (after = {} \/ ~Cased(Min(after)))
        THEN 962
        ELSE 963

\* the lowercase of the character at position i of w, a str of one character
\* (of two for U+0130)
LowerAt(w, i) ==
    LET c == w[i]
    IN  IF c < 128 THEN (IF IsAsciiUpper(c) THEN <<c + 32>> ELSE <<c>>)
        ELSE IF c = 931 THEN <<LowerSigma(w, i)>>
        ELSE IF c = 304 THEN <<105, 775>>
        ELSE IF \E m \in LowerMappings : m[1] <= c /\ c <= m[2] /\ (c - m[1]) % m[3] = 0
             THEN LET m == CHOOSE m \in LowerMappings :
                               m[1] <= c /\ c <= m[2] /\ (c - m[1]) % m[3] = 0
                  IN  <<c + m[4]>>
             ELSE <<c>>

\* str.lower()
lower(w) ==
    LET F[i \in 0..Len(w)] == IF i = 0 THEN <<>> ELSE F[i - 1] \o LowerAt(w, i)
    IN  F[Len(w)]

\* inflection.underscore(word):
\*   word = re.sub(r"([A-Z]+)([A-Z][a-z])", r"\1_\2", word)
\*   word = re.sub(r"([a-z\d])([A-Z])", r"\1_\2", word)
\*   word = word.replace("-", "_"); return word.lower()
\* The first substitution puts "_" before the last capital of a run of capitals
\* that a small letter follows, the second between a small letter or digit and
\* a capital; neither makes or removes a place where the other applies.
underscore(word) ==
    LET Break(i) ==
            /\ i >= 2
            /\ IsAsciiUpper(word[i])
            /\ \/ IsAsciiUpper(word[i - 1]) /\ i < Len(word) /\ IsAsciiLower(word[i + 1])
               \/ IsAsciiLower(word[i - 1])
               \/ IsDigit(word[i - 1])
        F[i \in 0..Len(word)] ==
            IF i = 0 THEN <<>>
            ELSE F[i - 1] \o (IF Break(i) THEN Text("_") ELSE <<>>)
                          \o (IF word[i] = 45 THEN Text("_") ELSE <<word[i]>>)
    IN  lower(F[Len(word)])

\* AbsoluteModelRef.inject(mapping).__enter__: the mapping becomes the active one
NoMapping == "no mapping"
inject_enter(c, m) == [active |-> m, token |-> c]

\* AbsoluteModelRef.inject(mapping).__exit__: the replaced value is restored
inject_exit(token) == token

---------------------------------------------------------------------------
(* GenericModelCodeGenerator *)

\* self.model.type[field]
TypeOf(m, field) == Get(m.type, field)

\* decorators: the base class has none
decorators(m) == <<>>

\* field_data(name, meta, optional): <<imports, data>>
field_data(name, meta, optional) ==
    LET t == metadata_to_typing(meta)
    IN  <<t[1], [name |-> underscore(name), type |-> t[2]]>>

\* FIELD.render(**data): "{{name}}: {{type}}{% if body %} = {{ body }}{% endif %}";
\* body is a text, absent from the data the base class's field_data forms
FIELD_render(data) ==
    data.name \o Text(": ") \o data.type
    \o (IF "body" \in DOMAIN data /\ Len(data.body) > 0
        THEN Text(" = ") \o data.body
        ELSE <<>>)

\* the slip: the two lists are enumerated the other way round
fields_loop_swapped(m) ==
    LET s == sort_fields(m)
    IN  [i \in 1..Len(s[2]) |-> <<s[2][i], FALSE>>] \o [i \in 1..Len(s[1]) |-> <<s[1][i], TRUE>>]

\* for is_optional, fields in enumerate((required, optional)): for field in fields:
\* the <<field, bool(is_optional)>> of each iteration, in order
fields_loop(m) ==
    LET s == sort_fields(m)
    IN  [i \in 1..Len(s[1]) |-> <<s[1][i], FALSE>>] \o [i \in 1..Len(s[2]) |-> <<s[2][i], TRUE>>]

\* the fields property: <<imports, strings>>
fields(m) ==
    LET calls == fields_loop(m)
        fd(i) == field_data(calls[i][1], TypeOf(m, calls[i][1]), calls[i][2])
    IN  <<Flatten([i \in 1..Len(calls) |-> fd(i)[1]]),
          [i \in 1..Len(calls) |-> FIELD_render(fd(i)[2])]>>

\* a plausible slip: the placeholder is rendered only when the body is wholly empty
BODY_render_pass_if_empty(decs, name, nested, flds) ==
    Flatten([i \in 1..Len(decs) |-> Text("@") \o decs[i] \o <<NL>>])
    \o Text("class ") \o name \o Text(":")
    \o Flatten([i \in 1..Len(nested) |-> <<NL>> \o nested[i] \o <<NL>>])
    \o (IF flds # <<>>
        THEN Flatten([i \in 1..Len(flds) |-> <<NL>> \o INDENT \o flds[i]])
        ELSE IF nested = <<>> THEN <<NL>> \o INDENT \o Text("pass") ELSE <<>>)

\* BODY.render(decorators, name, nested, fields): with the whitespace control of
\* the template, each decorator is "@d\n", each nested text is "\n" code "\n",
\* each field is "\n" indent field, and without fields the body is "\n" indent "pass"
BODY_render(decs, name, nested, flds) ==
    Flatten([i \in 1..Len(decs) |-> Text("@") \o decs[i] \o <<NL>>])
    \o Text("class ") \o name \o Text(":")
    \o Flatten([i \in 1..Len(nested) |-> <<NL>> \o nested[i] \o <<NL>>])
    \o (IF flds # <<>>
        THEN Flatten([i \in 1..Len(flds) |-> <<NL>> \o INDENT \o flds[i]])
        ELSE <<NL>> \o INDENT \o Text("pass"))

\* a plausible slip: the nested texts are embedded as they are
nested_data_plain(nested_classes) == nested_classes

\* data["nested"] = [indent(s) for s in nested_classes], set only for a non-empty list
nested_data(nested_classes) ==
    [i \in 1..Len(nested_classes) |-> indent(nested_classes[i])]

\* generate(nested_classes), given what self.fields returned: <<imports, text>>
generate_with(m, nested_classes, f) ==
    <<f[1], BODY_render(decorators(m), m.name, nested_data(nested_classes), f[2])>>

\* generate(nested_classes): <<imports, text>>
generate(m, nested_classes) == generate_with(m, nested_classes, fields(m))

---------------------------------------------------------------------------
(* Idle values of the variables a specification does not use *)

TIdle == pattern = <<>> /\ tindent = <<>> /\ tpl = <<>>

KIdle ==
    /\ kwargs = <<>> /\ kwargs_in = <<>> /\ ordering = <<>> /\ gi = 1
    /\ sorted_dict_1 = <<>> /\ sorted_dict_2 = <<>> /\ current = 1 /\ sorted_dict = <<>>

GIdle ==
    /\ model = [name |-> <<>>, type |-> <<>>] /\ nested_arg = <<>> /\ field_calls = <<>>
    /\ fields_out = <<>> /\ generate_out = <<>>

WIdle ==
    /\ root = <<>> /\ mapping = NoMapping /\ objects_delimiter = <<>>
    /\ ctx = NoMapping /\ ctx_token = NoMapping /\ stack = <<>> /\ log = <<>> /\ conv = <<>>
    /\ imports = <<>> /\ classes = <<>> /\ compile_args = <<>> /\ output = <<>>

---------------------------------------------------------------------------
(* Specification of template: one call on a bounded pattern *)

\* space, U+2003 (a space of the general punctuation block), "a" and "\n"
Chars == {32, 8195, 97, NL}
Indents == {Text(""), Text(" "), Text("  ")}

InitTemplate ==
    /\ pc = "template"
    /\ pattern \in SeqsUpTo(Chars, MaxPattern)
    /\ tindent \in Indents
    /\ tpl = <<>>
    /\ KIdle /\ GIdle /\ WIdle

\* the call template(pattern, indent), up to the Template(...) constructor
TemplateCall ==
    /\ pc = "template"
    /\ tpl' = template(pattern, tindent)
    /\ pc' = "templated"
    /\ UNCHANGED <<pattern, tindent, kvars, gvars, wvars>>

NextTemplate == TemplateCall

SpecTemplate == InitTemplate /\ [][NextTemplate]_vars


---------------------------------------------------------------------------
(* Specification of one generator: the fields property, then the rendering *)

FieldNames == {Text("a"), Text("fooBar"), Text("c"), Text("HTTPResponse")}
Metas == {<<"int">>, <<"Optional", "str">>, <<"List", "int">>}

\* the models with at most n fields, in every declared order
ModelsUpTo(name, n) ==
    {[name |-> name, type |-> [i \in 1..Len(fs) |-> <<fs[i], ms[i]>>]] :
        <<fs, ms>> \in {q \in SeqsUpTo(FieldNames, n) \X SeqsUpTo(Metas, n) :
                          /\ Len(q[1]) = Len(q[2])
                          /\ \A i, j \in 1..Len(q[1]) : i # j => q[1][i] # q[1][j]}}

ModelA == [name |-> Text("A"), type |-> <<>>]
ModelB == [name |-> Text("B"),
           type |-> << <<Text("a"), <<"int">>>>, <<Text("fooBar"), <<"Optional", "str">>>> >>]
ModelC == [name |-> Text("C"), type |-> << <<Text("c"), <<"List", "int">>>> >>]
ModelD == [name |-> Text("D"), type |-> << <<Text("fooBar"), <<"datetime">>>> >>]

\* rendered declarations to nest: a leaf, and a declaration with a nested one
NestedTexts ==
    {generate(ModelA, <<>>)[2], generate(ModelC, <<generate(ModelA, <<>>)[2]>>)[2]}

InitGenerator ==
    /\ pc = "generate"
    /\ model \in ModelsUpTo(Text("Model"), MaxFields)
    /\ nested_arg \in SeqsUpTo(NestedTexts, MaxNested)
    /\ field_calls = <<>>
    /\ fields_out = <<>>
    /\ generate_out = <<>>
    /\ TIdle /\ KIdle /\ WIdle

\* imports, fields = self.fields
GenFields ==
    /\ pc = "generate"
    /\ field_calls' = fields_loop(model)
    /\ fields_out' = fields(model)
    /\ pc' = "render"
    /\ UNCHANGED <<model, nested_arg, generate_out, tvars, kvars, wvars>>

\* the rest of generate: data, the nested texts indented, BODY.render
GenRender ==
    /\ pc = "render"
    /\ generate_out' = generate_with(model, nested_arg, fields_out)
    /\ pc' = "generated"
    /\ UNCHANGED <<model, nested_arg, field_calls, fields_out, tvars, kvars, wvars>>

NextGenerator == GenFields \/ GenRender

SpecGenerator == InitGenerator /\ [][NextGenerator]_vars


---------------------------------------------------------------------------
(* _generate_code and generate_code *)

\* a frame of _generate_code: its argument, its locals and its position in the loop body
NewFrame(nodes, path) ==
    [structure |-> nodes, path |-> path, i |-> 1, imports |-> <<>>, classes |-> <<>>,
     nested_classes |-> <<>>, at |-> "call"]

\* a plausible slip: the import block is written whether or not imports were collected
generate_code_text_always_block(imps, cls, delimiter) ==
    compile_imports(imps) \o delimiter \o join(cls, delimiter) \o <<NL>>

\* the text generate_code returns, given what the walker returned
generate_code_text(imps, cls, delimiter) ==
    (IF imps # <<>> THEN compile_imports(imps) \o delimiter ELSE <<>>)
    \o join(cls, delimiter) \o <<NL>>

\* the whole call _generate_code(structure, ...): <<imports, classes>>
RECURSIVE _generate_code(_)
_generate_code(structure) ==
    IF structure = <<>> THEN << <<>>, <<>> >>
    ELSE LET n == Len(structure)
             done == _generate_code(SubSeq(structure, 1, n - 1))
             nested == _generate_code(structure[n].nested)
             g == generate(structure[n].model, nested[2])
         IN  <<done[1] \o nested[1] \o g[1], Append(done[2], g[2])>>

\* the whole call generate_code((root, mapping), ..., objects_delimiter), when nothing fails
generate_code(nodes, delimiter) ==
    LET r == _generate_code(nodes)
    IN  generate_code_text(r[1], r[2], delimiter)

---------------------------------------------------------------------------
(* Specification of generate_code: one call on a bounded structure *)

WalkModels == {ModelA, ModelB, ModelC, ModelD}

\* the forests of exactly n nodes: the first tree takes k of them
RECURSIVE ForestsOfSize(_)
ForestsOfSize(n) ==
    IF n = 0 THEN {<<>>}
    ELSE UNION {{<<[model |-> m, nested |-> c]>> \o rest :
                    m \in WalkModels, c \in ForestsOfSize(k - 1), rest \in ForestsOfSize(n - k)} :
                k \in 1..n}

Structures == UNION {ForestsOfSize(n) : n \in 0..MaxNodes}

Mappings == {"mapping"}
Delimiters == {OBJECTS_DELIMITER, <<NL>> \o Text("# ----") \o <<NL>>}

Init ==
    /\ pc = "generate_code"
    /\ root \in Structures
    /\ mapping \in Mappings
    /\ objects_delimiter \in Delimiters
    /\ ctx = NoMapping
    /\ ctx_token = NoMapping
    /\ stack = <<>>
    /\ log = <<>>
    /\ conv = <<>>
    /\ imports = <<>>
    /\ classes = <<>>
    /\ compile_args = <<>>
    /\ output = <<>>
    /\ TIdle /\ KIdle /\ GIdle

top == stack[Len(stack)]
SetTop(f) == [stack EXCEPT ![Len(stack)] = f]
NodePath == Append(top.path, top.i)
NumFields == Len(top.structure[top.i].model.type)

\* root, mapping = structure; with AbsoluteModelRef.inject(mapping): _generate_code(root, ...)
WalkEnter ==
    /\ pc = "generate_code"
    /\ LET c == inject_enter(ctx, mapping)
       IN  ctx' = c.active /\ ctx_token' = c.token
    /\ stack' = <<NewFrame(root, <<>>)>>
    /\ pc' = "walk"
    /\ UNCHANGED <<root, mapping, objects_delimiter, log, conv, imports, classes,
                   compile_args, output, tvars, kvars, gvars>>

\* for data in structure: _generate_code(data["nested"], ..., lvl=lvl + 1)
WalkCall ==
    /\ pc = "walk"
    /\ top.at = "call"
    /\ top.i <= Len(top.structure)
    /\ stack' = Append(SetTop([top EXCEPT !.at = "wait"]),
                       NewFrame(top.structure[top.i].nested, NodePath))
    /\ UNCHANGED <<pc, root, mapping, objects_delimiter, ctx, ctx_token, log, conv, imports,
                   classes, compile_args, output, tvars, kvars, gvars>>

\* a plausible slip: the imports of the nested call are not added to the caller's
WalkReturnDropImports ==
    /\ pc = "walk"
    /\ Len(stack) > 1
    /\ top.at = "call"
    /\ top.i > Len(top.structure)
    /\ LET caller == stack[Len(stack) - 1]
       IN  stack' = Append(SubSeq(stack, 1, Len(stack) - 2),
                           [caller EXCEPT !.nested_classes = top.classes,
                                          !.at = "init"])
    /\ UNCHANGED <<pc, root, mapping, objects_delimiter, ctx, ctx_token, log, conv, imports,
                   classes, compile_args, output, tvars, kvars, gvars>>

\* return imports, classes to the calling frame; imports.extend(nested_imports)
WalkReturn ==
    /\ pc = "walk"
    /\ Len(stack) > 1
    /\ top.at = "call"
    /\ top.i > Len(top.structure)
    /\ LET caller == stack[Len(stack) - 1]
       IN  stack' = Append(SubSeq(stack, 1, Len(stack) - 2),
                           [caller EXCEPT !.imports = @ \o top.imports,
                                          !.nested_classes = top.classes,
                                          !.at = "init"])
    /\ UNCHANGED <<pc, root, mapping, objects_delimiter, ctx, ctx_token, log, conv, imports,
                   classes, compile_args, output, tvars, kvars, gvars>>

\* gen = class_generator(data["model"], **class_generator_kwargs)
WalkInstantiate ==
    /\ pc = "walk"
    /\ top.at = "init"
    /\ log' = Append(log, [ev |-> "init", path |-> NodePath, nested |-> <<>>,
                           imports |-> <<>>, text |-> <<>>])
    /\ stack' = SetTop([top EXCEPT !.at = "generate"])
    /\ UNCHANGED <<pc, root, mapping, objects_delimiter, ctx, ctx_token, conv, imports,
                   classes, compile_args, output, tvars, kvars, gvars>>

\* a plausible slip: the declaration is put in front of the list
WalkGeneratePrepend ==
    /\ pc = "walk"
    /\ top.at = "generate"
    /\ LET g == generate(top.structure[top.i].model, top.nested_classes)
       IN  /\ log' = Append(log, [ev |-> "generate", path |-> NodePath,
                                  nested |-> top.nested_classes,
                                  imports |-> g[1], text |-> g[2]])
           /\ stack' = SetTop([top EXCEPT !.imports = @ \o g[1],
                                          !.classes = <<g[2]>> \o @,
                                          !.nested_classes = <<>>,
                                          !.i = @ + 1,
                                          !.at = "call"])
    /\ conv' = conv \o [k \in 1..NumFields |-> ctx]
    /\ UNCHANGED <<pc, root, mapping, objects_delimiter, ctx, ctx_token, imports,
                   classes, compile_args, output, tvars, kvars, gvars>>

\* cls_imports, cls_string = gen.generate(nested_classes);
\* imports.extend(cls_imports); classes.append(cls_string)
WalkGenerate ==
    /\ pc = "walk"
    /\ top.at = "generate"
    /\ LET g == generate(top.structure[top.i].model, top.nested_classes)
       IN  /\ log' = Append(log, [ev |-> "generate", path |-> NodePath,
                                  nested |-> top.nested_classes,
                                  imports |-> g[1], text |-> g[2]])
           /\ stack' = SetTop([top EXCEPT !.imports = @ \o g[1],
                                          !.classes = Append(@, g[2]),
                                          !.nested_classes = <<>>,
                                          !.i = @ + 1,
                                          !.at = "call"])
    /\ conv' = conv \o [k \in 1..NumFields |-> ctx]
    /\ UNCHANGED <<pc, root, mapping, objects_delimiter, ctx, ctx_token, imports,
                   classes, compile_args, output, tvars, kvars, gvars>>

\* a plausible slip: the context is entered and left by hand, and an error skips the exit
WalkGenerateRaiseNoExit ==
    /\ pc = "walk"
    /\ top.at = "generate"
    /\ \E k \in 0..NumFields : conv' = conv \o [j \in 1..k |-> ctx]
    /\ stack' = <<>>
    /\ pc' = "raised"
    /\ UNCHANGED <<root, mapping, objects_delimiter, ctx, ctx_token, log, imports,
                   classes, compile_args, output, tvars, kvars, gvars>>

\* gen.generate fails after k conversions (sort_fields, the converter or the
\* templating engine raises): the error leaves every frame and the with block
WalkGenerateRaise ==
    /\ pc = "walk"
    /\ top.at = "generate"
    /\ \E k \in 0..NumFields : conv' = conv \o [j \in 1..k |-> ctx]
    /\ ctx' = inject_exit(ctx_token)
    /\ stack' = <<>>
    /\ pc' = "raised"
    /\ UNCHANGED <<root, mapping, objects_delimiter, ctx_token, log, imports,
                   classes, compile_args, output, tvars, kvars, gvars>>

\* the outermost _generate_code returns: imports, classes = ...; the with block is left
WalkLeave ==
    /\ pc = "walk"
    /\ Len(stack) = 1
    /\ top.at = "call"
    /\ top.i > Len(top.structure)
    /\ imports' = top.imports
    /\ classes' = top.classes
    /\ ctx' = inject_exit(ctx_token)
    /\ stack' = <<>>
    /\ pc' = "assemble"
    /\ UNCHANGED <<root, mapping, objects_delimiter, ctx_token, log, conv,
                   compile_args, output, tvars, kvars, gvars>>

\* if imports: imports_str = compile_imports(imports) + objects_delimiter ...; return
Assemble ==
    /\ pc = "assemble"
    /\ compile_args' = IF imports # <<>> THEN <<imports>> ELSE <<>>
    /\ output' = generate_code_text(imports, classes, objects_delimiter)
    /\ pc' = "returned"
    /\ UNCHANGED <<root, mapping, objects_delimiter, ctx, ctx_token, stack, log, conv,
                   imports, classes, tvars, kvars, gvars>>

\* compile_imports raises: the error reaches the caller
AssembleRaise ==
    /\ pc = "assemble"
    /\ imports # <<>>
    /\ compile_args' = <<imports>>
    /\ pc' = "raised"
    /\ UNCHANGED <<root, mapping, objects_delimiter, ctx, ctx_token, stack, log, conv,
                   imports, classes, output, tvars, kvars, gvars>>

Next ==
    \/ WalkEnter \/ WalkCall \/ WalkReturn \/ WalkInstantiate \/ WalkGenerate
    \/ WalkGenerateRaise \/ WalkLeave \/ Assemble \/ AssembleRaise

Spec == Init /\ [][Next]_vars

---------------------------------------------------------------------------
(* Specification of sort_kwargs: one call, one step per element of ordering *)

KwKeys == {"x", "y", "z"}
GroupKeys == {"x", "y"}

\* every insertion order of every subset of KwKeys; the value of a key is its position
KwargsSet ==
    {[i \in 1..Len(ks) |-> <<ks[i], i>>] :
        ks \in {q \in SeqsUpTo(KwKeys, Cardinality(KwKeys)) :
                    \A i, j \in 1..Len(q) : i # j => q[i] # q[j]}}

Groups == {<<>>} \cup {<<a>> : a \in GroupKeys} \cup {<<a, b>> : a, b \in GroupKeys}

OrderingElems == {Str("*"), Str("x")} \cup {Group(g) : g \in Groups}

InitSortKwargs ==
    /\ pc = "sort_kwargs"
    /\ kwargs \in KwargsSet
    /\ kwargs_in = kwargs
    /\ ordering \in SeqsUpTo(OrderingElems, MaxOrdering)
    /\ gi = 1
    /\ sorted_dict_1 = <<>>
    /\ sorted_dict_2 = <<>>
    /\ current = 1
    /\ sorted_dict = <<>>
    /\ TIdle /\ GIdle /\ WIdle

\* group is the string "*": current = sorted_dict_2
KwStar ==
    /\ pc = "sort_kwargs"
    /\ gi <= Len(ordering)
    /\ ordering[gi].isstr
    /\ ordering[gi].str = "*"
    /\ current' = 2
    /\ gi' = gi + 1
    /\ UNCHANGED <<pc, kwargs, kwargs_in, ordering, sorted_dict_1, sorted_dict_2, sorted_dict, tvars, gvars, wvars>>

\* group is another string: raise ValueError("Unknown kwarg group: ...")
KwUnknownGroup ==
    /\ pc = "sort_kwargs"
    /\ gi <= Len(ordering)
    /\ ordering[gi].isstr
    /\ ordering[gi].str # "*"
    /\ pc' = "raised"
    /\ UNCHANGED <<kvars, tvars, gvars, wvars>>

\* group is an iterable of names: move its names that kwargs holds into current
KwGroup ==
    /\ pc = "sort_kwargs"
    /\ gi <= Len(ordering)
    /\ ~ordering[gi].isstr
    /\ LET cur == IF current = 1 THEN sorted_dict_1 ELSE sorted_dict_2
           st == GroupLoop(<<kwargs, cur>>, ordering[gi].items)
       IN  /\ kwargs' = st[1]
           /\ sorted_dict_1' = IF current = 1 THEN st[2] ELSE sorted_dict_1
           /\ sorted_dict_2' = IF current = 2 THEN st[2] ELSE sorted_dict_2
    /\ gi' = gi + 1
    /\ UNCHANGED <<pc, kwargs_in, ordering, current, sorted_dict, tvars, gvars, wvars>>

\* a plausible slip: the remaining entries are merged first
KwReturnRemainingFirst ==
    /\ pc = "sort_kwargs"
    /\ gi > Len(ordering)
    /\ sorted_dict' = Merge(Merge(kwargs, sorted_dict_1), sorted_dict_2)
    /\ pc' = "returned"
    /\ UNCHANGED <<kwargs, kwargs_in, ordering, gi, sorted_dict_1, sorted_dict_2, current, tvars, gvars, wvars>>

\* sorted_dict = {**sorted_dict_1, **kwargs, **sorted_dict_2}; return sorted_dict
KwReturn ==
    /\ pc = "sort_kwargs"
    /\ gi > Len(ordering)
    /\ sorted_dict' = Merge(Merge(sorted_dict_1, kwargs), sorted_dict_2)
    /\ pc' = "returned"
    /\ UNCHANGED <<kwargs, kwargs_in, ordering, gi, sorted_dict_1, sorted_dict_2, current, tvars, gvars, wvars>>

NextSortKwargs == KwStar \/ KwUnknownGroup \/ KwGroup \/ KwReturn

SpecSortKwargs == InitSortKwargs /\ [][NextSortKwargs]_vars

---------------------------------------------------------------------------
(* Claims about template *)

StartsWith(line, ind) ==
    Len(line) >= Len(ind) /\ \A i \in 1..Len(ind) : line[i] = ind[i]

\* the line the claim expects for an input line
C9_ExpectedLine(line, ind) ==
    IF StartsWith(line, ind)
    THEN [i \in 1..(Len(line) - Len(ind)) |-> line[i + Len(ind)]]
    ELSE line

\* C9: for a pattern with a newline, template drops the first line if it is
\* blank and the last line if it is blank (one line at most at each end),
\* then takes exactly one leading indent off every remaining line that starts
\* with the indent and leaves the other lines as they are; a pattern without
\* a newline reaches the templating engine unaltered.
C9_TemplateDedent ==
    pc = "templated" =>
        IF \E i \in 1..Len(pattern) : pattern[i] = NL
        THEN LET lines == split(pattern, NL)
                 dropFirst == IF IsBlank(lines[1]) THEN 1 ELSE 0
                 dropLast == IF IsBlank(lines[Len(lines)]) THEN 1 ELSE 0
                 kept == Len(lines) - dropFirst - dropLast
             IN  tpl = join([k \in 1..kept |-> C9_ExpectedLine(lines[k + dropFirst], tindent)],
                            <<NL>>)
        ELSE tpl = pattern

\* a pattern whose first and last lines are blank and are dropped, with one
\* line that loses its indent and one line that does not start with it
C9_Witness ==
    /\ pc = "templated"
    /\ tindent # <<>>
    /\ \E i \in 1..Len(pattern) : pattern[i] = NL
    /\ LET lines == split(pattern, NL)
       IN  /\ Len(lines) >= 4
           /\ IsBlank(lines[1])
           /\ IsBlank(lines[Len(lines)])
           /\ \E k \in 2..(Len(lines) - 1) : StartsWith(lines[k], tindent)
           /\ \E k \in 2..(Len(lines) - 1) : ~StartsWith(lines[k], tindent)
    /\ tpl # pattern

---------------------------------------------------------------------------
(* Claims about sort_kwargs *)

\* index of the first "*" of an ordering (Len + 1 when there is none)
FirstStar(ord) ==
    IF \E i \in 1..Len(ord) : ord[i].isstr /\ ord[i].str = "*"
    THEN CHOOSE i \in 1..Len(ord) :
            /\ ord[i].isstr /\ ord[i].str = "*"
            /\ \A j \in 1..(i - 1) : ~(ord[j].isstr /\ ord[j].str = "*")
    ELSE Len(ord) + 1

\* the names the groups of ord[lo..hi] mention, in order of mention
RECURSIVE Mentions(_, _, _)
Mentions(ord, lo, hi) ==
    IF lo > hi THEN <<>>
    ELSE (IF ord[lo].isstr THEN <<>> ELSE ord[lo].items) \o Mentions(ord, lo + 1, hi)

\* s with each element kept at its first occurrence only
FirstOccurrences(s) ==
    LET F[i \in 0..Len(s)] ==
            IF i = 0 THEN <<>>
            ELSE IF \E j \in 1..(i - 1) : s[j] = s[i] THEN F[i - 1] ELSE Append(F[i - 1], s[i])
    IN  F[Len(s)]

\* the key order the claim expects
C1_ExpectedKeys(kw, ord) ==
    LET star == FirstStar(ord)
        InKw(k) == HasKey(kw, k)
        before == FirstOccurrences(SelectSeq(Mentions(ord, 1, star - 1), InKw))
        NotBefore(k) == \A i \in 1..Len(before) : before[i] # k
        after == FirstOccurrences(
                    SelectSeq(SelectSeq(Mentions(ord, star + 1, Len(ord)), InKw), NotBefore))
        Unnamed(k) == \A i \in 1..Len(ord) :
                          ord[i].isstr \/ \A j \in 1..Len(ord[i].items) : ord[i].items[j] # k
        rest == SelectSeq(Keys(kw), Unnamed)
    IN  before \o rest \o after

\* C1: the mapping sort_kwargs returns lists first the keys named by groups
\* before the first "*" (at first mention, present keys only), then the keys
\* no group names in the original order, then the keys named by groups after
\* the first "*"; every key keeps its value, none is lost or duplicated.
C1_SortedOrder ==
    pc = "returned" =>
        LET want == C1_ExpectedKeys(kwargs_in, ordering)
        IN  sorted_dict = [i \in 1..Len(want) |-> <<want[i], Get(kwargs_in, want[i])>>]

\* the case of the specification: {x, y, z} with [[y], "*", [x]] gives y, z, x
C1_Witness ==
    /\ pc = "returned"
    /\ Keys(kwargs_in) = <<"x", "y", "z">>
    /\ ordering = <<Group(<<"y">>), Str("*"), Group(<<"x">>)>>
    /\ Keys(sorted_dict) = <<"y", "z", "x">>

\* C2: a call that fails on an unknown string group leaves the caller's
\* kwargs as it was before the call.
C2_NoPartialEffect == pc = "raised" => kwargs = kwargs_in

---------------------------------------------------------------------------
(* Claims about the generator *)

\* C6: the fields property returns one field line per name of sort_fields, the
\* required names first and then the optional names, each list in the order
\* sort_fields gave; field_data is called with optional=False for a required
\* name and optional=True for an optional one, and the imports returned are
\* the per-field imports concatenated in that order.
C6_FieldsOrder ==
    pc \in {"render", "generated"} =>
        LET s == sort_fields(model)
            names == s[1] \o s[2]
            opt(i) == i > Len(s[1])
            fd(i) == field_data(names[i], TypeOf(model, names[i]), opt(i))
        IN  /\ field_calls = [i \in 1..Len(names) |-> <<names[i], opt(i)>>]
            /\ fields_out[2] = [i \in 1..Len(names) |-> FIELD_render(fd(i)[2])]
            /\ fields_out[1] = Flatten([i \in 1..Len(names) |-> fd(i)[1]])

\* the case of the specification: a required, b optional, c required, declared
\* in that order, gives the lines of a, c, b
C6_Witness ==
    /\ pc = "render"
    /\ Keys(model.type) = <<Text("a"), Text("fooBar"), Text("c")>>
    /\ sort_fields(model) = << <<Text("a"), Text("c")>>, <<Text("fooBar")>> >>
    /\ field_calls = << <<Text("a"), FALSE>>, <<Text("c"), FALSE>>, <<Text("fooBar"), TRUE>> >>
    /\ Len(fields_out[2]) = 3
    /\ StartsWith(fields_out[2][3], Text("foo_bar: "))

PassLine == INDENT \o Text("pass")

\* C7: generate renders the placeholder line exactly when the field list is
\* empty, with or without nested declarations; with fields the body ends in
\* one line per field and holds no placeholder; with no fields and no nested
\* declarations the text is the header and the placeholder only.
C7_EmptyBodyPlaceholder ==
    pc = "generated" =>
        LET lines == split(generate_out[2], NL)
            flds == fields_out[2]
            passes == {i \in 1..Len(lines) : lines[i] = PassLine}
            nestedLines == Len(split(Flatten([j \in 1..Len(nested_arg) |->
                                     <<NL>> \o nested_arg[j] \o <<NL>>]), NL)) - 1
            header == Text("class ") \o model.name \o Text(":")
        IN  /\ lines[1] = header
            /\ Cardinality(passes) = IF flds = <<>> THEN 1 ELSE 0
            /\ flds = <<>> => lines[Len(lines)] = PassLine
            /\ flds # <<>> =>
                /\ Len(lines) = 1 + nestedLines + Len(flds)
                /\ \A i \in 1..Len(flds) :
                       lines[1 + nestedLines + i] = INDENT \o flds[i]
            /\ (flds = <<>> /\ nested_arg = <<>>) => lines = <<header, PassLine>>

\* a model without fields, generated with nested declarations, has the placeholder
C7_Witness ==
    /\ pc = "generated"
    /\ fields_out[2] = <<>>
    /\ nested_arg # <<>>
    /\ \E i \in 1..Len(split(generate_out[2], NL)) : split(generate_out[2], NL)[i] = PassLine

---------------------------------------------------------------------------
(* Claims about the tree walker and generate_code *)

\* the paths of the nodes of a forest: <<2, 1>> is the first child of the second root
RECURSIVE AllPaths(_, _)
AllPaths(forest, prefix) ==
    UNION {{Append(prefix, i)} \cup AllPaths(forest[i].nested, Append(prefix, i)) :
           i \in 1..Len(forest)}

RECURSIVE NodeAt(_, _)
NodeAt(forest, path) ==
    IF Len(path) = 1 THEN forest[path[1]]
    ELSE NodeAt(forest[path[1]].nested, Tail(path))

IsProperPrefix(p, q) == Len(p) < Len(q) /\ SubSeq(q, 1, Len(p)) = p

Events(ev, path) == {i \in 1..Len(log) : log[i].ev = ev /\ log[i].path = path}

\* the generate call of the node at path (there is one when the walk has passed it)
GenEvent(path) == log[CHOOSE i \in Events("generate", path) : TRUE]

\* the imports of the generate calls made, in call order
CollectedImports ==
    Flatten([i \in 1..Len(log) |-> IF log[i].ev = "generate" THEN log[i].imports ELSE <<>>])

\* the number of places where the text sub occurs in text
Occurrences(text, sub) ==
    Cardinality({i \in 1..(Len(text) - Len(sub) + 1) :
                    SubSeq(text, i, i + Len(sub) - 1) = sub})

\* C3: generate_code returns the compiled imports and one delimiter when
\* imports were collected and nothing otherwise, then the top-level
\* declarations joined by the delimiter, then one newline: without imports
\* the text starts with the first declaration, and k >= 1 root nodes give k-1
\* delimiters between the declarations.
C3_OutputLayout ==
    pc = "returned" =>
        LET k == Len(root)
            decls == [i \in 1..k |-> GenEvent(<<i>>).text]
            block == IF CollectedImports # <<>>
                     THEN compile_imports(CollectedImports) \o objects_delimiter
                     ELSE <<>>
        IN  /\ output = block \o join(decls, objects_delimiter) \o <<NL>>
            /\ (CollectedImports = <<>> /\ k >= 1) =>
                   SubSeq(output, 1, Len(decls[1])) = decls[1]
            /\ Occurrences(output, objects_delimiter) =
                   (IF k >= 1 THEN k - 1 ELSE 0) + (IF CollectedImports # <<>> THEN 1 ELSE 0)

\* two root declarations and no imports: decl1, delimiter, decl2, newline
C3_Witness ==
    /\ pc = "returned"
    /\ Len(root) = 2
    /\ imports = <<>>
    /\ compile_args = <<>>
    /\ output = classes[1] \o objects_delimiter \o classes[2] \o <<NL>>

\* C4: the import list handed to the import compiler holds every import the
\* generate call of every node of the tree returned, at any depth.
C4_ImportsComplete ==
    (pc = "returned" \/ compile_args # <<>>) =>
        \A path \in AllPaths(root, <<>>) :
            /\ Events("generate", path) # {}
            /\ GenEvent(path).imports = fields(NodeAt(root, path).model)[1]
            /\ \A imp \in Range(GenEvent(path).imports) :
                   /\ compile_args # <<>>
                   /\ imp \in Range(compile_args[1])

\* a root with two children: the three nodes contribute three different imports
C4_Witness ==
    /\ pc = "returned"
    /\ Len(root) = 1
    /\ Len(root[1].nested) = 2
    /\ root[1].model = ModelD
    /\ root[1].nested[1].model = ModelB
    /\ root[1].nested[2].model = ModelC
    /\ Range(compile_args[1]) =
           {<<"datetime", "datetime">>, <<"typing", "Optional">>, <<"typing", "List">>}

\* C5: the structure's mapping is the active one at every type-text
\* conversion of the call, and is no longer active once generate_code has
\* returned or raised, also when generation failed partway through the walk.
C5_ContextScoped ==
    /\ \A i \in 1..Len(conv) : conv[i] = mapping
    /\ pc = "walk" => ctx = mapping
    /\ pc \in {"returned", "raised"} => ctx = NoMapping

\* a generate call failed after other nodes were generated and fields converted
C5_Witness ==
    /\ pc = "raised"
    /\ compile_args = <<>>
    /\ \E i \in 1..Len(log) : log[i].ev = "generate"
    /\ conv # <<>>
    /\ ctx = NoMapping

\* the line at which the declaration of the node at path starts, counted from
\* the first line of the declaration of its root
RECURSIVE DeclOffset(_)
DeclOffset(path) ==
    IF Len(path) = 1 THEN 0
    ELSE LET parent == SubSeq(path, 1, Len(path) - 1)
             j == path[Len(path)]
             Before[n \in 0..(j - 1)] ==
                 IF n = 0 THEN 0
                 ELSE Before[n - 1] + Len(split(GenEvent(Append(parent, n)).text, NL)) + 1
         IN  DeclOffset(parent) + 1 + Before[j - 1]

\* the number of lines of the output before the declaration of root r
RootOffset(r) ==
    LET block == IF CollectedImports # <<>>
                 THEN compile_imports(CollectedImports) \o objects_delimiter
                 ELSE <<>>
        before == block \o Flatten([i \in 1..(r - 1) |->
                                       GenEvent(<<i>>).text \o objects_delimiter])
    IN  Cardinality({i \in 1..Len(before) : before[i] = NL})

\* C8: in the text generate returns for a parent every line of each nested
\* text carries one indent unit more than in the nested text itself; so every
\* line of a declaration at depth d stands in the output with d indent units
\* before its standalone rendering.
C8_NestedIndent ==
    /\ \A e \in 1..Len(log) :
           log[e].ev = "generate" =>
               LET lines == split(log[e].text, NL)
                   nested == log[e].nested
                   Before[n \in 0..Len(nested)] ==
                       IF n = 0 THEN 0
                       ELSE Before[n - 1] + Len(split(nested[n], NL)) + 1
               IN  \A j \in 1..Len(nested) :
                       LET own == split(nested[j], NL)
                       IN  \A l \in 1..Len(own) :
                               lines[1 + Before[j - 1] + l] = INDENT \o own[l]
    /\ pc = "returned" =>
           LET out == split(output, NL)
           IN  \A path \in AllPaths(root, <<>>) :
                   LET own == split(GenEvent(path).text, NL)
                       d == Len(path) - 1
                       at == RootOffset(path[1]) + DeclOffset(path)
                   IN  \A l \in 1..Len(own) :
                           out[at + l] = Flatten([n \in 1..d |-> INDENT]) \o own[l]

\* a declaration nested two levels deep reached the output
C8_Witness ==
    /\ pc = "returned"
    /\ \E path \in AllPaths(root, <<>>) :
           /\ Len(path) = 3
           /\ \E l \in 1..Len(split(output, NL)) :
                  split(output, NL)[l] =
                      INDENT \o INDENT \o split(GenEvent(path).text, NL)[1]

\* C10: the walker is a post-order traversal that keeps sibling order: the
\* generate calls of all descendants of a node are over before its generator
\* is instantiated, every node gets one generator and one generate call, a
\* generate call receives the texts of the node's children in child order,
\* and the returned list holds one declaration per input node in input order.
C10_PostOrder ==
    /\ \A i \in 1..Len(log) :
           /\ log[i].path \in AllPaths(root, <<>>)
           /\ \A j \in 1..Len(log) :
                  (log[j].ev = log[i].ev /\ log[j].path = log[i].path) => j = i
           /\ log[i].ev = "init" =>
                  \A q \in AllPaths(root, <<>>) :
                      IsProperPrefix(log[i].path, q) =>
                          \E j \in 1..(i - 1) : log[j].ev = "generate" /\ log[j].path = q
           /\ log[i].ev = "generate" =>
                  /\ \E j \in 1..(i - 1) : log[j].ev = "init" /\ log[j].path = log[i].path
                  /\ \A j \in 1..(i - 1) :
                         (log[j].ev = "generate" /\ Len(log[j].path) = Len(log[i].path)
                          /\ IsProperPrefix(SubSeq(log[i].path, 1, Len(log[i].path) - 1),
                                            log[j].path))
                             => log[j].path[Len(log[j].path)] < log[i].path[Len(log[i].path)]
                  /\ log[i].nested =
                         [c \in 1..Len(NodeAt(root, log[i].path).nested) |->
                             GenEvent(Append(log[i].path, c)).text]
    /\ pc \in {"assemble", "returned"} =>
           /\ \A path \in AllPaths(root, <<>>) :
                  Events("init", path) # {} /\ Events("generate", path) # {}
           /\ classes = [i \in 1..Len(root) |-> GenEvent(<<i>>).text]

\* a root with two different children was walked to the end
C10_Witness ==
    /\ pc = "assemble"
    /\ Len(root) = 2
    /\ Len(root[2].nested) = 1
    /\ root[1].model # root[2].model
    /\ Len(log) = 6
    /\ log[6].ev = "generate" /\ log[6].path = <<2>>
    /\ log[4].ev = "generate" /\ log[4].path = <<2, 1>>

---------------------------------------------------------------------------
(* The stepwise specifications agree with the whole-call operators *)

StepsAgreeSortKwargs ==
    /\ pc = "returned" =>
           LET r == sort_kwargs(kwargs_in, ordering)
           IN  ~r.raised /\ r.value = sorted_dict /\ r.kwargs = kwargs
    /\ pc = "raised" =>
           LET r == sort_kwargs(kwargs_in, ordering)
           IN  r.raised /\ r.kwargs = kwargs

StepsAgreeGenerateCode ==
    /\ pc \in {"assemble", "returned"} => <<imports, classes>> = _generate_code(root)
    /\ pc = "returned" => output = generate_code(root, objects_delimiter)

StepsAgreeGenerate ==
    pc = "generated" => generate_out = generate(model, nested_arg)

====
